---- MODULE Spec2Model ----
(***************************************************************************)
(* A model of iss_tracker.py: the process-wide dictionary `data`, the      *)
(* Flask handlers that load, clear and query it, and the helpers they      *)
(* call.  Python values are records whose first field, kind, says which    *)
(* Python value it is; dictionaries live in a heap of objects, because     *)
(* data.clear() empties an object in place while `data = ...` rebinds the  *)
(* global name to another object.                                          *)
(***************************************************************************)
EXTENDS Integers, Sequences, FiniteSets, TLC

VARIABLES
    data,     \* the global name `data`: the id of the dict object it is bound to
    heap,     \* the dict objects: object id -> contents
    req,      \* the request of the last handler that ran
    resp,     \* what that handler returned (or raised)
    tz,       \* the process's local time zone, seconds east of UTC
    lastMut,  \* history: the last load or clear ("clear_again": a clear after a
              \* clear, with no load between them)
    thr,      \* threaded server: each worker thread's position and locals
    obs       \* threaded server: what the last read of the dataset saw

vars == <<data, heap, req, resp, tz, lastMut, thr, obs>>

(***************************************************************************)
(* Bounds of the model.                                                    *)
(***************************************************************************)
MaxRecords == 3
MaxArg == 2
NumThreads == 2

(***************************************************************************)
(* The epochs the upstream feed uses here, with the fields strptime reads  *)
(* from each ('%Y-%jT%H:%M:%S' after the last five characters, the         *)
(* fraction and the Z, are cut off).                                       *)
(***************************************************************************)
EpochPool ==
    << "2024-001T12:00:00.000Z", "2024-001T12:01:30.000Z",
       "2024-001T12:02:30.000Z", "2024-001T23:58:00.000Z",
       "2024-002T00:02:00.000Z" >>

UnknownEpochArg == "2024-300T00:00:00.000Z"

SecondsPerMinute == 60
MinutesPerHour == 60
HoursPerDay == 24
SecondsPerHour == SecondsPerMinute * MinutesPerHour
SecondsPerDay == SecondsPerHour * HoursPerDay

\* time.strptime(e[:-5], '%Y-%jT%H:%M:%S'): the fields of the struct_time
\* (the year is 2024 throughout and is left out of the arithmetic).
strptime(e) ==
    CASE e = EpochPool[1] -> [yday |-> 1, hour |-> 12, min |-> 0,  sec |-> 0]
      [] e = EpochPool[2] -> [yday |-> 1, hour |-> 12, min |-> 1,  sec |-> 30]
      [] e = EpochPool[3] -> [yday |-> 1, hour |-> 12, min |-> 2,  sec |-> 30]
      [] e = EpochPool[4] -> [yday |-> 1, hour |-> 23, min |-> 58, sec |-> 0]
      [] e = EpochPool[5] -> [yday |-> 2, hour |-> 0,  min |-> 2,  sec |-> 0]

\* calendar seconds of a struct_time counted from 2024-001T00:00:00
CalendarSeconds(st) ==
    (st.yday - 1) * SecondsPerDay + st.hour * SecondsPerHour
        + st.min * SecondsPerMinute + st.sec

\* time.mktime(st): st is read as LOCAL time; the result is seconds since
\* the epoch (here: since 2024-001T00:00:00 UTC).  zone is the local zone's
\* offset east of UTC.
mktime(st, zone) == CalendarSeconds(st) - zone

\* time.gmtime(secs): the UTC hour and minute of an instant
gmtime(secs) ==
    [hour |-> (secs \div SecondsPerHour) % HoursPerDay,
     min  |-> (secs \div SecondsPerMinute) % MinutesPerHour]

(***************************************************************************)
(* Documents: what xmltodict.parse returns for an upstream response, as    *)
(* far as the handlers look into it.  root is the single top-level key     *)
(* ("" for the empty dict), keys the parts present under                   *)
(* ndm/oem/..., svIsList whether stateVector is a list (xmltodict gives a  *)
(* dict, not a list, for an element that occurs once).                     *)
(***************************************************************************)
StateVector(e, p, v) ==
    [EPOCH |-> e, X |-> p[1], Y |-> p[2], Z |-> p[3],
     X_DOT |-> v[1], Y_DOT |-> v[2], Z_DOT |-> v[3]]

Positions == << <<1, 0, 0>>, <<0, 1, 0>>, <<-1, 0, 0>>, <<-1, -1, 1>>, <<1, -1, 0>> >>
Velocities == << <<1, 0, 0>>, <<0, 2, 0>>, <<0, 0, 3>>, <<1, 1, 1>>, <<0, 0, 0>> >>

Record(i) == StateVector(EpochPool[i], Positions[i], Velocities[i])

EmptyDict ==
    [root |-> "", keys |-> {}, header |-> "", metadata |-> "",
     comment |-> <<>>, stateVector |-> <<>>, svIsList |-> TRUE]

AllParts == {"header", "metadata", "COMMENT", "stateVector"}

\* a well-formed OEM document with n state vectors, the first being Record(first)
OemDoc(first, n) ==
    [root |-> "ndm", keys |-> AllParts,
     header |-> "header", metadata |-> "metadata",
     comment |-> <<"Units are in kg and m^2", "MASS=459325.00">>,
     stateVector |-> [i \in 1..n |-> Record(first + i - 1)],
     svIsList |-> n > 1]

\* an XML document of another kind (S3 answers a failed GET with <Error>...)
ForeignDoc == [EmptyDict EXCEPT !.root = "Error"]

\* an OEM document whose data segment holds no stateVector element
NoVectorsDoc ==
    [OemDoc(1, 2) EXCEPT !.keys = AllParts \ {"stateVector"}, !.stateVector = <<>>]

WellFormedDocs == {OemDoc(1, n) : n \in 2..MaxRecords} \cup {OemDoc(2, 2)}

Feed == WellFormedDocs \cup {OemDoc(1, 1), ForeignDoc, NoVectorsDoc}

(***************************************************************************)
(* Python values the handlers return.                                      *)
(***************************************************************************)
NoDataMsg == "No data found. Please reload data.\n"
BadLimitMsg == "Bad Request. Invalid limit parameter.\n"
BadOffsetMsg == "Bad Request. Invalid offset parameter.\n"
EmptyRangeMsg == "Bad Request. offset or limit parameter is either too large or too small.\n"
UnknownEpochMsg == "The epoch you requested is not in the data.\n"
SpeedInvalidMsg == "We are unable to calculate speed. Invalid Epoch.\n"
LocationInvalidMsg == "Bad request. Invalid Epoch.\n"
NothingToDeleteMsg == "No data to delete.\n"
DeletedMsg == "All the data has been removed.\n"
NowNoDataMsg == "No data.\n"
OceanMsg == "Unknown location, possibly somewhere over the ocean."

\* the tuple (message, 400)
PyErr(m) == [kind |-> "tuple", msg |-> m, status |-> 400, val |-> <<>>]
\* an uncaught exception: Flask answers 500
PyRaise(x) == [kind |-> "raise", msg |-> x, status |-> 500, val |-> <<>>]
\* a view function that falls off its end returns None: Flask answers 500
PyNone == [kind |-> "none", msg |-> "", status |-> 500, val |-> <<>>]
PyStr(m) == [kind |-> "str", msg |-> m, status |-> 200, val |-> <<>>]
PyVal(k, v) == [kind |-> k, msg |-> "", status |-> 200, val |-> v]

NoData == PyErr(NoDataMsg)

\* len(d) of a document
PyLen(d) == IF d.root = "" THEN 0 ELSE 1

\* whether the lookup of part k under ndm/oem/... succeeds (no KeyError)
HasPart(d, k) == d.root = "ndm" /\ k \in d.keys

(***************************************************************************)
(* Query arguments: <<>> when the key is absent from the query string,     *)
(* <<s>> when it is present with text s.                                   *)
(***************************************************************************)
IntText == << "-2", "-1", "0", "1", "2", "3", "4", "5", "6", "7" >>

\* int(s): the value, or ValueError
PyInt(s) ==
    IF \E i \in DOMAIN IntText : IntText[i] = s
    THEN [ok |-> TRUE, val |-> (CHOOSE i \in DOMAIN IntText : IntText[i] = s) - 3]
    ELSE [ok |-> FALSE, val |-> 0]

Max(a, b) == IF a > b THEN a ELSE b
Min(a, b) == IF a < b THEN a ELSE b

\* the index a slice bound b stands for in a list of length n
SliceIndex(b, n) == IF b < 0 THEN Max(n + b, 0) ELSE Min(b, n)

\* s[a:]
PySliceFrom(s, a) == SubSeq(s, SliceIndex(a, Len(s)) + 1, Len(s))
\* s[:b]
PySliceTo(s, b) == SubSeq(s, 1, SliceIndex(b, Len(s)))


(***************************************************************************)
(* GET /epochs                                                             *)
(***************************************************************************)
\* lines 88-90: the EPOCH of every state vector, in dataset order
EpochsOf(d) == [i \in 1..Len(d.stateVector) |-> d.stateVector[i].EPOCH]

\* request.args.get(key, default) handed to int()
ArgInt(arg, default) == IF arg = <<>> THEN [ok |-> TRUE, val |-> default] ELSE PyInt(arg[1])

\* (mutant) the two slices in the other order: epochs[:limit][offset:]
Window_limitFirst(epochs, offset, limit) == PySliceFrom(PySliceTo(epochs, limit), offset)

\* lines 102-103: epochs[offset:] and then [:limit]
Window(epochs, offset, limit) == PySliceTo(PySliceFrom(epochs, offset), limit)

get_epochs(d, q) ==
    IF PyLen(d) = 0 THEN NoData
    ELSE IF ~HasPart(d, "stateVector") THEN PyRaise("KeyError")
    ELSE IF ~d.svIsList THEN PyRaise("TypeError")
    ELSE LET epochs == EpochsOf(d)
             limit == ArgInt(q.limit, Len(epochs))
             offset == ArgInt(q.offset, 0)
         IN  IF ~limit.ok THEN PyErr(BadLimitMsg)
             ELSE IF ~offset.ok THEN PyErr(BadOffsetMsg)
             ELSE LET w == Window(epochs, offset.val, limit.val)
                  IN  IF Len(w) = 0 THEN PyErr(EmptyRangeMsg) ELSE PyVal("list", w)

(***************************************************************************)
(* GET /epochs/<epoch>                                                     *)
(***************************************************************************)
\* `epoch not in v` is decided on whatever get_epochs() returned: the list
\* of epochs, or the tuple (message, 400)
PyIn(epoch, v) ==
    CASE v.kind = "list" -> \E i \in DOMAIN v.val : v.val[i] = epoch
      [] v.kind = "tuple" -> epoch = v.msg
      [] OTHER -> FALSE

\* (mutant) the loop returns its first element without comparing EPOCH
FirstMatch_noCompare(d, epoch) ==
    IF d.stateVector = <<>> THEN PyNone ELSE PyVal("sv", d.stateVector[1])

\* lines 127-131: the first state vector whose EPOCH is epoch, else None
FirstMatch(d, epoch) ==
    LET hits == {i \in DOMAIN d.stateVector : d.stateVector[i].EPOCH = epoch}
    IN  IF hits = {} THEN PyNone
        ELSE PyVal("sv", d.stateVector[CHOOSE i \in hits : \A j \in hits : i <= j])

\* what line 124 tests the epoch against: get_epochs() of the same request
Candidates(d, q) == get_epochs(d, q)

get_state_vectors(d, q, epoch) ==
    IF PyLen(d) = 0 THEN NoData
    ELSE LET listed == Candidates(d, q)
         IN  IF listed.kind = "raise" THEN listed
             ELSE IF ~PyIn(epoch, listed) THEN PyErr(UnknownEpochMsg)
             ELSE FirstMatch(d, epoch)

(***************************************************************************)
(* GET /epochs/<epoch>/speed.  The value is kept as its square: the        *)
(* handler takes the square root of this sum.                              *)
(***************************************************************************)
calculate_speed(d, q, epoch) ==
    IF PyLen(d) = 0 THEN NoData
    ELSE LET state_vec == get_state_vectors(d, q, epoch)
         IN  IF state_vec.kind = "raise" THEN state_vec
             ELSE IF state_vec.kind # "sv" THEN PyErr(SpeedInvalidMsg)
             ELSE LET v == state_vec.val
                  IN  PyVal("speed",
                            [valueSquared |-> v.X_DOT * v.X_DOT + v.Y_DOT * v.Y_DOT
                                                + v.Z_DOT * v.Z_DOT,
                             units |-> "km/s"])

(***************************************************************************)
(* GET /epochs/<epoch>/location.  Angles are in quarter degrees, in which  *)
(* the minute term of the longitude, mins/60 * 15 degrees, is exact.       *)
(* Latitude and altitude need real square roots and are left out of the    *)
(* returned dict.                                                          *)
(***************************************************************************)
Deg(n) == 4 * n

\* math.degrees(math.atan2(y, x)) on the directions the feed uses here;
\* yNegZero says y is -0.0, for which atan2 gives -180 when x < 0
Atan2Deg(y, x, yNegZero) ==
    CASE x > 0 /\ y = 0 -> Deg(0)
      [] x > 0 /\ y > 0 -> Deg(45)
      [] x = 0 /\ y > 0 -> Deg(90)
      [] x < 0 /\ y > 0 -> Deg(135)
      [] x < 0 /\ y = 0 -> IF yNegZero THEN -Deg(180) ELSE Deg(180)
      [] x < 0 /\ y < 0 -> -Deg(135)
      [] x = 0 /\ y < 0 -> -Deg(90)
      [] x > 0 /\ y < 0 -> -Deg(45)
      [] OTHER -> Deg(0)

\* (mutant) the wrap by half a turn instead of a whole one
correct_longtitude_halfTurn(num) ==
    IF num > Deg(180) THEN num - Deg(180)
    ELSE IF num < -Deg(180) THEN num + Deg(180)
    ELSE num

correct_longtitude(num) ==
    IF num > Deg(180) THEN num - Deg(360)
    ELSE IF num < -Deg(180) THEN num + Deg(360)
    ELSE num

\* line 298
RawLongitude(atan, hrs, mins) ==
    atan - ((hrs - 12) * Deg(360 \div 24) + (mins * Deg(360 \div 24)) \div 60) + Deg(14)

\* lines 292-295: the hour and minute get_location reads off the epoch
ClockOf(st, zone) == gmtime(mktime(st, zone))
EpochClock(epoch, zone) == ClockOf(strptime(epoch), zone)

\* lines 298 and 301: the longitude of a position at a clock time
Longitude(y, x, yNegZero, clock) ==
    correct_longtitude(RawLongitude(Atan2Deg(y, x, yNegZero), clock.hour, clock.min))

GeoOutcomes == {"found", "none", "unavailable"}

get_location(d, q, epoch, zone, geo) ==
    IF PyLen(d) = 0 THEN NoData
    ELSE LET state_vec == get_state_vectors(d, q, epoch)
         IN  IF state_vec.kind = "raise" THEN state_vec
             ELSE IF state_vec.kind # "sv" THEN PyErr(LocationInvalidMsg)
             ELSE LET v == state_vec.val
                      clock == EpochClock(v.EPOCH, zone)
                      lon == Longitude(v.Y, v.X, FALSE, clock)
                  IN  IF geo = "unavailable" THEN PyRaise("GeocoderUnavailable")
                      ELSE PyVal("location",
                                 [longtitude |-> lon,
                                  geo |-> IF geo = "found" THEN "display_name" ELSE OceanMsg])


(***************************************************************************)
(* GET /now                                                                *)
(***************************************************************************)
Abs(x) == IF x < 0 THEN -x ELSE x

\* lines 324-327: time_now - mktime(strptime(e[:-5])) for every listed epoch
TimeDiffs(epochs, now, zone) ==
    [i \in DOMAIN epochs |-> now - mktime(strptime(epochs[i]), zone)]

\* min(time_diff, key=abs): the first element of least absolute value
MinByAbs(diffs) ==
    diffs[CHOOSE i \in DOMAIN diffs :
            /\ \A j \in DOMAIN diffs : Abs(diffs[i]) <= Abs(diffs[j])
            /\ \A j \in 1..(i - 1) : Abs(diffs[j]) > Abs(diffs[i])]

\* time_diff.index(x): the first position holding x
IndexOf(diffs, x) ==
    CHOOSE i \in DOMAIN diffs : diffs[i] = x /\ \A j \in 1..(i - 1) : diffs[j] # x

location_now(d, q, now, zone, geo) ==
    IF PyLen(d) = 0 THEN NoData
    ELSE LET epochs == get_epochs(d, q)
         IN  IF epochs.kind = "raise" THEN epochs
             ELSE IF epochs.kind # "list" THEN PyErr(NowNoDataMsg)
             ELSE LET time_diff == TimeDiffs(epochs.val, now, zone)
                      abs_diff == MinByAbs(time_diff)
                      closest_epoch == epochs.val[IndexOf(time_diff, abs_diff)]
                      location == get_location(d, q, closest_epoch, zone, geo)
                      speed == calculate_speed(d, q, closest_epoch)
                  IN  IF location.kind = "raise" THEN location
                      ELSE IF speed.kind = "raise" THEN speed
                      ELSE PyVal("now",
                                 [closest_epoch |-> closest_epoch,
                                  seconds_from_now |-> abs_diff,
                                  location |-> location,
                                  speed |-> speed])

(***************************************************************************)
(* GET /comment, /header, /metadata: the lookup, with KeyError caught      *)
(***************************************************************************)
get_comment(d) == IF HasPart(d, "COMMENT") THEN PyVal("comment", d.comment) ELSE NoData
get_header(d) == IF HasPart(d, "header") THEN PyVal("header", d.header) ELSE NoData
\* (mutant) the lookup without the except KeyError clause
get_metadata_uncaught(d) ==
    IF HasPart(d, "metadata") THEN PyVal("metadata", d.metadata) ELSE PyRaise("KeyError")

get_metadata(d) == IF HasPart(d, "metadata") THEN PyVal("metadata", d.metadata) ELSE NoData

help_info == PyStr("Usage: curl localhost:5000[ROUTE]")

(***************************************************************************)
(* The heap of dict objects.  An object no name refers to is freed, and a  *)
(* new object takes the least free id.                                     *)
(***************************************************************************)
ObjIds == 1..(NumThreads + 2)
Free == [EmptyDict EXCEPT !.root = "<free>"]
NewObj(h) == CHOOSE i \in ObjIds : h[i] = Free /\ \A j \in 1..(i - 1) : h[j] # Free
Collect(h, roots) == [i \in ObjIds |-> IF i \in roots THEN h[i] ELSE Free]

\* the dict the global name `data` is bound to
Store == heap[data]

\* line 24: data.clear() empties the object in place
Cleared(h, ref) == [h EXCEPT ![ref] = EmptyDict]

(***************************************************************************)
(* Upstream: what requests.get and xmltodict.parse come back with.         *)
(***************************************************************************)
FetchFailed == [kind |-> "fetch_fail", doc |-> EmptyDict]
ParseFailed == [kind |-> "parse_fail", doc |-> EmptyDict]
Fetched(doc) == [kind |-> "doc", doc |-> doc]
NoFeed == [kind |-> "none", doc |-> EmptyDict]
Upstream == {FetchFailed, ParseFailed} \cup {Fetched(doc) : doc \in Feed}

\* the exception lines 25-26 raise on a failed fetch or an unparsable body
LoadError(feed) ==
    IF feed.kind = "fetch_fail" THEN PyRaise("ConnectionError") ELSE PyRaise("ExpatError")

\* get_data(): the heap and the binding of `data` after the whole call
get_data(h, ref, feed, roots) ==
    LET h1 == Cleared(h, ref)
    IN  IF feed.kind = "doc"
        THEN LET n == NewObj(h1)
             IN  [heap |-> Collect([h1 EXCEPT ![n] = feed.doc], roots \cup {n}), data |-> n]
        ELSE [heap |-> h1, data |-> ref]

\* (mutant) delete_data() without the emptiness check of line 203
delete_data_unchecked(d) == PyStr(DeletedMsg)

\* delete_data(): the response, and the heap after it
delete_data(d) == IF PyLen(d) = 0 THEN PyErr(NothingToDeleteMsg) ELSE PyStr(DeletedMsg)
Deleted(h, ref) == IF PyLen(h[ref]) = 0 THEN h ELSE Cleared(h, ref)

(***************************************************************************)
(* Requests.                                                               *)
(***************************************************************************)
NoQuery == [limit |-> <<>>, offset |-> <<>>]

Request(route, epoch, q, now, geo, feed) ==
    [route |-> route, epoch |-> epoch, q |-> q, now |-> now, geo |-> geo, feed |-> feed]

Plain(route) == Request(route, "", NoQuery, 0, "none", NoFeed)

ArgValues == {<<>>, <<"abc">>} \cup {<<IntText[i]>> : i \in 2..(MaxArg + 3)}
Queries == [limit : ArgValues, offset : ArgValues]
LookupQueries == [limit : ArgValues, offset : {<<>>, <<"1">>}]
FewQueries == {NoQuery, [limit |-> <<"1">>, offset |-> <<>>]}
EpochArgs == {EpochPool[i] : i \in 1..MaxRecords} \cup {UnknownEpochArg, BadLimitMsg}
NowTimes == {43300, 43320}
TimeZones == {0, 3600}

Idle == [pc |-> "idle", ref |-> 0, before |-> EmptyDict]
NoObservation == [by |-> "none", val |-> EmptyDict, befores |-> {}, news |-> {}]

Init ==
    /\ data = 1
    /\ heap = [i \in ObjIds |-> IF i = 1 THEN EmptyDict ELSE Free]
    /\ req = Plain("start")
    /\ resp = PyNone
    /\ tz \in TimeZones
    /\ lastMut = "none"
    /\ thr = [t \in 1..NumThreads |-> Idle]
    /\ obs = NoObservation

(***************************************************************************)
(* One action per route: the whole handler, run to completion.             *)
(***************************************************************************)
queryUnchanged == <<data, heap, tz, lastMut, thr, obs>>

\* what a handler that calls get_data() answers: the dict `data` is then
\* bound to, or the exception get_data() raised
LoadAnswer(feed, after) ==
    IF feed.kind = "doc" THEN PyVal("doc", after.heap[after.data]) ELSE LoadError(feed)

LoadOutcome(feed) == IF feed.kind = "doc" THEN "load_ok" ELSE "load_fail"

RouteRoot ==
    \E feed \in Upstream :
        LET after == get_data(heap, data, feed, {})
        IN  /\ req' = Request("/", "", NoQuery, 0, "none", feed)
            /\ heap' = after.heap
            /\ data' = after.data
            /\ resp' = LoadAnswer(feed, after)
            /\ lastMut' = LoadOutcome(feed)
            /\ UNCHANGED <<tz, thr, obs>>

RoutePostData ==
    \E feed \in Upstream :
        LET after == get_data(heap, data, feed, {})
        IN  /\ req' = Request("/post-data", "", NoQuery, 0, "none", feed)
            /\ heap' = after.heap
            /\ data' = after.data
            /\ resp' = LoadAnswer(feed, after)
            /\ lastMut' = LoadOutcome(feed)
            /\ UNCHANGED <<tz, thr, obs>>

RouteDeleteData ==
    /\ req' = Plain("/delete-data")
    /\ resp' = delete_data(Store)
    /\ heap' = Deleted(heap, data)
    /\ lastMut' = IF lastMut \in {"clear", "clear_again"} THEN "clear_again" ELSE "clear"
    /\ UNCHANGED <<data, tz, thr, obs>>

RouteEpochs ==
    \E q \in Queries :
        /\ req' = Request("/epochs", "", q, 0, "none", NoFeed)
        /\ resp' = get_epochs(Store, q)
        /\ UNCHANGED queryUnchanged

RouteEpoch ==
    \E q \in LookupQueries, e \in EpochArgs :
        /\ req' = Request("/epochs/<epoch>", e, q, 0, "none", NoFeed)
        /\ resp' = get_state_vectors(Store, q, e)
        /\ UNCHANGED queryUnchanged

RouteSpeed ==
    \E q \in FewQueries, e \in EpochArgs :
        /\ req' = Request("/epochs/<epoch>/speed", e, q, 0, "none", NoFeed)
        /\ resp' = calculate_speed(Store, q, e)
        /\ UNCHANGED queryUnchanged

RouteLocation ==
    \E q \in FewQueries, e \in EpochArgs, geo \in GeoOutcomes :
        /\ req' = Request("/epochs/<epoch>/location", e, q, 0, geo, NoFeed)
        /\ resp' = get_location(Store, q, e, tz, geo)
        /\ UNCHANGED queryUnchanged

RouteNow ==
    \E q \in FewQueries, now \in NowTimes, geo \in GeoOutcomes :
        /\ req' = Request("/now", "", q, now, geo, NoFeed)
        /\ resp' = location_now(Store, q, now, tz, geo)
        /\ UNCHANGED queryUnchanged

RouteComment ==
    /\ req' = Plain("/comment")
    /\ resp' = get_comment(Store)
    /\ UNCHANGED queryUnchanged

RouteHeader ==
    /\ req' = Plain("/header")
    /\ resp' = get_header(Store)
    /\ UNCHANGED queryUnchanged

RouteMetadata ==
    /\ req' = Plain("/metadata")
    /\ resp' = get_metadata(Store)
    /\ UNCHANGED queryUnchanged

RouteHelp ==
    /\ req' = Plain("/help")
    /\ resp' = help_info
    /\ UNCHANGED queryUnchanged

Next ==
    \/ RouteRoot
    \/ RoutePostData
    \/ RouteDeleteData
    \/ RouteEpochs
    \/ RouteEpoch
    \/ RouteSpeed
    \/ RouteLocation
    \/ RouteNow
    \/ RouteComment
    \/ RouteHeader
    \/ RouteMetadata
    \/ RouteHelp

Spec == Init /\ [][Next]_vars


(***************************************************************************)
(* The threaded server (app.run serves each request on its own thread).    *)
(* A load runs statement by statement: data.clear(), the fetch and parse,  *)
(* the assignment to `data`, the handler's `return data`, and Flask's      *)
(* serialisation of the returned dict.  A reading handler runs in one      *)
(* step, between any two of these.                                         *)
(***************************************************************************)
Threads == 1..NumThreads

\* the objects some thread still holds
Held(th) == {th[u].ref : u \in Threads} \ {0}

\* loads that have emptied the store and not yet bound the new dict
Racing(except) == {u \in Threads \ except : thr[u].pc \in {"cleared", "parsed"}}

\* a read of dict val, with the datasets the racing loads replaced and bring
Observation(by, val, except) ==
    [by |-> by, val |-> val,
     befores |-> {thr[u].before : u \in Racing(except)},
     news |-> {heap[thr[u].ref] : u \in {w \in Racing(except) : thr[w].pc = "parsed"}}]

\* the documents upstream serves while the threaded server runs
ThreadedFeed == {OemDoc(1, 2), OemDoc(2, 2)}

\* line 24
LoadClear(t) ==
    /\ thr[t].pc = "idle"
    /\ thr' = [thr EXCEPT ![t] = [pc |-> "cleared", ref |-> 0, before |-> Store]]
    /\ heap' = Cleared(heap, data)
    /\ UNCHANGED <<data, req, resp, tz, lastMut, obs>>

\* lines 25-26 raising: the request ends with the store as line 24 left it
LoadFail(t) ==
    /\ thr[t].pc = "cleared"
    /\ \E feed \in {FetchFailed, ParseFailed} : resp' = LoadError(feed)
    /\ thr' = [thr EXCEPT ![t] = Idle]
    /\ lastMut' = "load_fail"
    /\ UNCHANGED <<data, heap, req, tz, obs>>

\* lines 25-26 succeeding: the parsed dict is a new object
LoadParse(t) ==
    /\ thr[t].pc = "cleared"
    /\ \E doc \in ThreadedFeed :
        LET n == NewObj(heap)
        IN  /\ heap' = [heap EXCEPT ![n] = doc]
            /\ thr' = [thr EXCEPT ![t].pc = "parsed", ![t].ref = n]
    /\ UNCHANGED <<data, req, resp, tz, lastMut, obs>>

\* line 26: `data = ...` rebinds the global name
LoadAssign(t) ==
    /\ thr[t].pc = "parsed"
    /\ data' = thr[t].ref
    /\ thr' = [thr EXCEPT ![t].pc = "assigned", ![t].ref = 0]
    /\ heap' = Collect(heap, {data'} \cup Held(thr'))
    /\ lastMut' = "load_ok"
    /\ UNCHANGED <<req, resp, tz, obs>>

\* lines 71 and 221: `return data` reads the global name
LoadReturn(t) ==
    /\ thr[t].pc = "assigned"
    /\ thr' = [thr EXCEPT ![t].pc = "returned", ![t].ref = data]
    /\ UNCHANGED <<data, heap, req, resp, tz, lastMut, obs>>

\* Flask turns the returned dict into the response body
LoadSerialize(t) ==
    /\ thr[t].pc = "returned"
    /\ obs' = Observation("load", heap[thr[t].ref], {t})
    /\ resp' = PyVal("doc", heap[thr[t].ref])
    /\ thr' = [thr EXCEPT ![t] = Idle]
    /\ heap' = Collect(heap, {data} \cup Held(thr'))
    /\ UNCHANGED <<data, req, tz, lastMut>>

\* a reading handler on an idle thread
Read(t) ==
    /\ thr[t].pc = "idle"
    /\ obs' = Observation("read", Store, {t})
    /\ \/ req' = Plain("/epochs") /\ resp' = get_epochs(Store, NoQuery)
       \/ req' = Plain("/header") /\ resp' = get_header(Store)
    /\ UNCHANGED <<data, heap, tz, lastMut, thr>>

NextThreaded ==
    \E t \in Threads :
        \/ LoadClear(t)
        \/ LoadFail(t)
        \/ LoadParse(t)
        \/ LoadAssign(t)
        \/ LoadReturn(t)
        \/ LoadSerialize(t)
        \/ Read(t)

SpecThreaded == Init /\ [][NextThreaded]_vars

(***************************************************************************)
(* The longitude of get_location as a function of its inputs: a position   *)
(* direction and the epoch's clock time, in every time zone of TimeZones.  *)
(***************************************************************************)
Directions ==
    {[x |-> x, y |-> y, yNegZero |-> FALSE] : x \in {-1, 0, 1}, y \in {-1, 0, 1}}
        \cup {[x |-> -1, y |-> 0, yNegZero |-> TRUE]}

Probes ==
    {[dir |-> d, st |-> [yday |-> 1, hour |-> h, min |-> m, sec |-> 0]] :
        d \in Directions, h \in 0..(HoursPerDay - 1), m \in 0..(MinutesPerHour - 1)}

InitLongitude ==
    /\ req \in Probes
    /\ resp = PyNone
    /\ tz \in TimeZones
    /\ data = 1
    /\ heap = [i \in ObjIds |-> IF i = 1 THEN EmptyDict ELSE Free]
    /\ lastMut = "none"
    /\ thr = [t \in Threads |-> Idle]
    /\ obs = NoObservation

LongitudeStep ==
    /\ resp = PyNone
    /\ resp' = PyVal("longtitude",
                     Longitude(req.dir.y, req.dir.x, req.dir.yNegZero, ClockOf(req.st, tz)))
    /\ UNCHANGED <<data, heap, req, tz, lastMut, thr, obs>>

SpecLongitude == InitLongitude /\ [][LongitudeStep]_vars


(***************************************************************************)
(* Properties.                                                             *)
(***************************************************************************)
QueryRoutes ==
    {"/epochs", "/epochs/<epoch>", "/epochs/<epoch>/speed", "/epochs/<epoch>/location",
     "/now", "/comment", "/header", "/metadata"}

\* a store holding one complete dataset: every part, and a list of state vectors
Complete(d) == d.root = "ndm" /\ d.keys = AllParts /\ d.svIsList /\ d.stateVector # <<>>

\* C1: while a load runs, a read of the dataset sees the whole dataset that
\* was there before the load began, or the whole new one, whenever a
\* dataset was loaded before the load began.
C1_LoadAtomicForReaders ==
    LET priors == {b \in obs.befores : PyLen(b) # 0}
    IN  priors # {} => obs.val \in priors \cup obs.news

\* C2: a load whose fetch fails or whose document cannot be parsed leaves
\* the store holding exactly the dataset it held before.
C2_FailedLoadKeepsStore ==
    [][((RouteRoot \/ RoutePostData) /\ lastMut' = "load_fail") => heap'[data'] = heap[data]]_vars

\* C3: on an empty store every query endpoint answers NoData with status
\* 400, whatever the epoch and the limit/offset arguments.
C3_EmptyStoreGuard ==
    (req.route \in QueryRoutes /\ Store = EmptyDict) => (resp = NoData /\ resp.status = 400)

C3_Witness ==
    /\ req.route = "/epochs/<epoch>/location"
    /\ req.q.limit = <<"1">>
    /\ lastMut = "clear"
    /\ Store = EmptyDict
    /\ resp = NoData

\* C4: a clear of a loaded store confirms and leaves the store empty; a
\* clear of an empty store answers the NoData error with status 400 and
\* leaves it empty; so the second of two clears with no load between them
\* fails, and a clear right after a successful load succeeds.
C4_ClearNotIdempotent ==
    [][RouteDeleteData =>
        /\ heap'[data'] = EmptyDict
        /\ (Store = EmptyDict => resp' = PyErr(NothingToDeleteMsg))
        /\ (Store # EmptyDict => resp' = PyStr(DeletedMsg))
        /\ (lastMut \in {"clear", "clear_again"} => resp'.status = 400)
        /\ (lastMut = "load_ok" => resp'.status = 200)]_vars

C4_Witness ==
    /\ req.route = "/delete-data"
    /\ lastMut = "clear_again"
    /\ resp = PyErr(NothingToDeleteMsg)
    /\ Store = EmptyDict

\* the value of a limit/offset argument that is absent or a numeral
ArgValue(arg, default) == IF arg = <<>> THEN default ELSE PyInt(arg[1]).val
NonNegative(arg) == arg = <<>> \/ (PyInt(arg[1]).ok /\ PyInt(arg[1]).val >= 0)

\* epochs[offset : offset+limit] clipped to [0, N], in dataset order
Clipped(epochs, offset, limit) ==
    LET lo == Min(offset, Len(epochs))
        hi == Min(offset + limit, Len(epochs))
    IN  [i \in 1..(hi - lo) |-> epochs[lo + i]]

FullLookup(d, epoch) ==
    IF \E i \in DOMAIN d.stateVector : d.stateVector[i].EPOCH = epoch
    THEN PyVal("sv", d.stateVector[CHOOSE i \in DOMAIN d.stateVector :
                                       d.stateVector[i].EPOCH = epoch])
    ELSE PyErr(UnknownEpochMsg)

\* C6: on a loaded store /epochs/{e} gives the same outcome whatever limit
\* and offset the request carries: the state vector of e if e is in the
\* full dataset, UnknownEpoch otherwise.
C6_PaginationNeverAffectsLookup ==
    (req.route = "/epochs/<epoch>" /\ Complete(Store)) => resp = FullLookup(Store, req.epoch)

EpochInstant(e) == CalendarSeconds(strptime(e))

\* the first record, in dataset order, whose epoch is nearest to now
Nearest(d, now) ==
    CHOOSE i \in DOMAIN d.stateVector :
        /\ \A j \in DOMAIN d.stateVector :
               Abs(now - EpochInstant(d.stateVector[i].EPOCH))
                   <= Abs(now - EpochInstant(d.stateVector[j].EPOCH))
        /\ \A j \in 1..(i - 1) :
               Abs(now - EpochInstant(d.stateVector[j].EPOCH))
                   > Abs(now - EpochInstant(d.stateVector[i].EPOCH))

\* C8: /now picks, among all records, the first one whose epoch time t is
\* nearest to now, and reports now - t for it.
C8_NearestInstant ==
    (req.route = "/now" /\ req.q = NoQuery /\ Complete(Store) /\ resp.kind = "now") =>
    LET chosen == Store.stateVector[Nearest(Store, req.now)]
    IN  /\ resp.val.closest_epoch = chosen.EPOCH
        /\ resp.val.seconds_from_now = req.now - EpochInstant(chosen.EPOCH)

\* the same, for a process whose local time is UTC
NearestInstantUnderUTC == tz = 0 => C8_NearestInstant

\* C9: the longitude get_location returns lies in [-180, 180] for every
\* position and every epoch hour and minute.
C9_LongitudeInRange ==
    resp.kind = "longtitude" => (-Deg(180) <= resp.val /\ resp.val <= Deg(180))

C9_Witness ==
    /\ resp.kind = "longtitude"
    /\ RawLongitude(Atan2Deg(req.dir.y, req.dir.x, req.dir.yNegZero),
                    ClockOf(req.st, tz).hour, ClockOf(req.st, tz).min) = Deg(374)
    /\ resp.val = Deg(14)

\* C10: the store is empty, or it holds one complete dataset: header,
\* metadata, comments and a non-empty sequence of state vectors.
C10_EmptyOrComplete ==
    PyLen(Store) = 0 \/
        (Store.root = "ndm" /\ Store.keys = AllParts /\ Store.stateVector # <<>>)

====
